---- MODULE Spec2Model ----
(***************************************************************************)
(* Model of switch-pip (src/pips/switch-pip/switch-pip/cli.py): the        *)
(* read/modify/write cycle on pip.conf, the bounded switch history, and    *)
(* backup/restore of the configuration file.                               *)
(*                                                                         *)
(* Strings that the program inspects character by character (URLs, option  *)
(* names, shortcut names) are sequences of one-character strings, so that  *)
(* lower(), startswith(), endswith(), urlparse().hostname and the          *)
(* configparser interpolation are computed on the characters.              *)
(***************************************************************************)
EXTENDS Integers, Sequences, FiniteSets, TLC

VARIABLES conf, backup, hist, now, last, calls, atBackup, proc, wrote

vars == <<conf, backup, hist, now, last, calls, atBackup, proc, wrote>>

----------------------------------------------------------------------------
(* Program constants                                                       *)

\* DEFAULT_INDEX = "https://pypi.org/simple/"
DEFAULT_INDEX ==
    <<"h", "t", "t", "p", "s", ":", "/", "/", "p", "y", "p", "i", ".", "o", "r", "g", "/", "s", "i", "m", "p", "l", "e", "/">>
URL_tsinghua ==
    <<"h", "t", "t", "p", "s", ":", "/", "/", "p", "y", "p", "i", ".", "t", "u", "n", "a", ".", "t", "s", "i", "n", "g", "h", "u", "a", ".", "e", "d", "u", ".", "c", "n", "/", "s", "i", "m", "p", "l", "e", "/">>

URL_aliyun ==
    <<"h", "t", "t", "p", "s", ":", "/", "/", "m", "i", "r", "r", "o", "r", "s", ".", "a", "l", "i", "y", "u", "n", ".", "c", "o", "m", "/", "p", "y", "p", "i", "/", "s", "i", "m", "p", "l", "e", "/">>

URL_douban ==
    <<"h", "t", "t", "p", "s", ":", "/", "/", "p", "y", "p", "i", ".", "d", "o", "u", "b", "a", "n", "i", "o", ".", "c", "o", "m", "/", "s", "i", "m", "p", "l", "e", "/">>

URL_testpypi ==
    <<"h", "t", "t", "p", "s", ":", "/", "/", "t", "e", "s", "t", ".", "p", "y", "p", "i", ".", "o", "r", "g", "/", "s", "i", "m", "p", "l", "e", "/">>

N_pypi ==
    <<"p", "y", "p", "i">>

N_tsinghua ==
    <<"t", "s", "i", "n", "g", "h", "u", "a">>

N_aliyun ==
    <<"a", "l", "i", "y", "u", "n">>

N_alibaba ==
    <<"a", "l", "i", "b", "a", "b", "a">>

N_douban ==
    <<"d", "o", "u", "b", "a", "n">>

N_testpypi ==
    <<"t", "e", "s", "t", "p", "y", "p", "i">>

\* The shortcut table: short name -> full URL.
POPULAR_MIRRORS ==
    [n \in {N_pypi, N_tsinghua, N_aliyun, N_alibaba, N_douban, N_testpypi} |->
        CASE n = N_pypi     -> DEFAULT_INDEX
          [] n = N_tsinghua -> URL_tsinghua
          [] n = N_aliyun   -> URL_aliyun
          [] n = N_alibaba  -> URL_aliyun
          [] n = N_douban   -> URL_douban
          [] n = N_testpypi -> URL_testpypi]

\* The retention cap of the history file (len(history) > 50, history[-50:]).
HistoryCap == 50

HTTP_PREFIX ==
    <<"h", "t", "t", "p", ":", "/", "/">>

HTTPS_PREFIX ==
    <<"h", "t", "t", "p", "s", ":", "/", "/">>

K_index_url ==
    <<"i", "n", "d", "e", "x", "-", "u", "r", "l">>

K_trusted_host ==
    <<"t", "r", "u", "s", "t", "e", "d", "-", "h", "o", "s", "t">>

SEC_global == "global"

SEC_default == "DEFAULT"

----------------------------------------------------------------------------
(* Inputs: what a user types, and what a user may have left in the files   *)

\* a shortcut name, not in lower case
ArgShortcut ==
    <<"A", "l", "i", "y", "u", "n">>

\* upper-case host, a port, no trailing slash
ArgNoSlash ==
    <<"h", "t", "t", "p", ":", "/", "/", "A", ".", "b", ":", "8">>

\* accepted scheme, empty host part
ArgNoHost ==
    <<"h", "t", "t", "p", ":", "/", "/", "/">>

\* scheme that is not accepted
ArgBadScheme ==
    <<"f", "t", "p", ":", "/", "/", "a", ".", "b", "/">>

\* percent-encoded path
ArgPercent ==
    <<"h", "t", "t", "p", "s", ":", "/", "/", "a", ".", "b", "/", "%", "2", "0", "/">>

\* doubled percent sign
ArgPercent2 ==
    <<"h", "t", "t", "p", "s", ":", "/", "/", "a", ".", "b", "/", "%", "%", "/">>

\* nothing typed
ArgEmpty ==
    <<>>

\* an option of pip, spelled with a capital
K_Timeout ==
    <<"T", "i", "m", "e", "o", "u", "t">>

\* a host name
H_douban ==
    <<"p", "y", "p", "i", ".", "d", "o", "u", "b", "a", "n", "i", "o", ".", "c", "o", "m">>

\* an option value
V_5 ==
    <<"5">>

----------------------------------------------------------------------------
(* str methods                                                             *)

LowerChar(c) ==
    CASE c = "A" -> "a"
      [] c = "B" -> "b"
      [] c = "C" -> "c"
      [] c = "D" -> "d"
      [] c = "E" -> "e"
      [] c = "F" -> "f"
      [] c = "G" -> "g"
      [] c = "H" -> "h"
      [] c = "I" -> "i"
      [] c = "J" -> "j"
      [] c = "K" -> "k"
      [] c = "L" -> "l"
      [] c = "M" -> "m"
      [] c = "N" -> "n"
      [] c = "O" -> "o"
      [] c = "P" -> "p"
      [] c = "Q" -> "q"
      [] c = "R" -> "r"
      [] c = "S" -> "s"
      [] c = "T" -> "t"
      [] c = "U" -> "u"
      [] c = "V" -> "v"
      [] c = "W" -> "w"
      [] c = "X" -> "x"
      [] c = "Y" -> "y"
      [] c = "Z" -> "z"
      [] OTHER -> c

\* str.lower()
Lower(s) == [i \in 1..Len(s) |-> LowerChar(s[i])]

\* str.startswith(p)
StartsWith(s, p) == Len(s) >= Len(p) /\ SubSeq(s, 1, Len(p)) = p

\* str.endswith("/")
EndsWithSlash(s) == Len(s) > 0 /\ s[Len(s)] = "/"

\* str.find over a set of characters, from position `from`; 0 when absent
RECURSIVE FindAny(_, _, _)
FindAny(s, chars, from) ==
    IF from > Len(s) THEN 0
    ELSE IF s[from] \in chars THEN from
    ELSE FindAny(s, chars, from + 1)

\* last position of character c in s; 0 when absent (str.rpartition)
RECURSIVE RFind(_, _, _)
RFind(s, c, from) ==
    IF from < 1 THEN 0
    ELSE IF s[from] = c THEN from
    ELSE RFind(s, c, from - 1)

----------------------------------------------------------------------------
(* urllib.parse.urlparse(url).hostname                                     *)

AsciiAlpha ==
    {"a", "b", "c", "d", "e", "f", "g", "h", "i", "j", "k", "l", "m", "n", "o", "p", "q", "r", "s", "t", "u", "v", "w", "x", "y", "z",
     "A", "B", "C", "D", "E", "F", "G", "H", "I", "J", "K", "L", "M", "N", "O", "P", "Q", "R", "S", "T", "U", "V", "W", "X", "Y", "Z"}

\* urllib.parse.scheme_chars
SchemeChars ==
    AsciiAlpha \cup {"0", "1", "2", "3", "4", "5", "6", "7", "8", "9", "+", "-", "."}

\* The text of s before position i, all of s when i = 0 (nothing found)
Before(s, i) == SubSeq(s, 1, IF i = 0 THEN Len(s) ELSE i - 1)

\* urlsplit: with i the position of the first ':', the text after
\* "<scheme>:" when the text before it is a scheme, the whole text otherwise
SplitScheme(url, i) ==
    IF /\ i > 1
       /\ url[1] \in AsciiAlpha
       /\ \A j \in 1..(i - 1) : url[j] \in SchemeChars
    THEN SubSeq(url, i + 1, Len(url))
    ELSE url

AfterScheme(url) == SplitScheme(url, FindAny(url, {":"}, 1))

\* urlsplit / _splitnetloc: the text between "//" and the first of / ? #
SplitNetloc(rest) ==
    IF StartsWith(rest, <<"/", "/">>)
    THEN Tail(Tail(Before(rest, FindAny(rest, {"/", "?", "#"}, 3))))
    ELSE <<>>

Netloc(url) == SplitNetloc(AfterScheme(url))

\* _NetlocResultMixinStr._hostinfo: drop the user info before the last '@'
HostInfo(netloc) == SubSeq(netloc, RFind(netloc, "@", Len(netloc)) + 1, Len(netloc))

\* .hostname: cut the host info at the first ':', lower-case.  The empty
\* sequence stands for None; the caller tests `if host:`, which treats both
\* alike.  (Bracketed IPv6 literals are not among the modelled inputs.)
HostOf(hostinfo) == Lower(Before(hostinfo, FindAny(hostinfo, {":"}, 1)))

Hostname(url) == HostOf(HostInfo(Netloc(url)))

----------------------------------------------------------------------------
(* configparser.ConfigParser, as far as cli.py uses it                     *)

\* A file on disk that does not exist.
NoFile ==
    [exists |-> FALSE, malformed |-> FALSE, comment |-> FALSE,
     sections |-> {}, opts |-> {}]

\* An INI file: the section headers it holds, the options as
\* <<section, name as spelled, value>>, whether it holds comment lines, and
\* whether it holds a line configparser cannot parse (an option before any
\* section header).
IniFile(secs, options, hasComment) ==
    [exists |-> TRUE, malformed |-> FALSE, comment |-> hasComment,
     sections |-> secs, opts |-> options]

MalformedFile ==
    [exists |-> TRUE, malformed |-> TRUE, comment |-> FALSE,
     sections |-> {}, opts |-> {<<"", K_index_url, URL_douban>>}]

\* RawConfigParser.optionxform: option names are lower-cased
optionxform(option) == Lower(option)

\* BasicInterpolation.before_set: "%%" is removed, and any '%' left over is
\* an error ("%(name)s" references are not among the modelled inputs).
RECURSIVE PercentValid(_)
PercentValid(value) ==
    LET p == FindAny(value, {"%"}, 1)
    IN  IF p = 0 THEN TRUE
        ELSE IF p < Len(value) /\ value[p + 1] = "%"
             THEN PercentValid(SubSeq(value, p + 2, Len(value)))
             ELSE FALSE

\* BasicInterpolation.before_get / _interpolate_some: "%%" reads as "%";
\* a '%' followed by anything else raises InterpolationSyntaxError.
RECURSIVE Interpolate(_)
Interpolate(value) ==
    LET p == FindAny(value, {"%"}, 1)
    IN  IF p = 0 THEN [raised |-> FALSE, val |-> value]
        ELSE IF p < Len(value) /\ value[p + 1] = "%"
             THEN LET r == Interpolate(SubSeq(value, p + 2, Len(value)))
                  IN  [raised |-> r.raised,
                       val |-> SubSeq(value, 1, p) \o r.val]
             ELSE [raised |-> TRUE, val |-> <<>>]

EmptyConfig == [raised |-> FALSE, sections |-> {}, opts |-> {}]

\* ConfigParser.read of a strict parser: a line before any section header
\* raises MissingSectionHeaderError, two options of a section that agree
\* after optionxform raise DuplicateOptionError; comments are dropped and
\* option names are stored lower-cased.
ParseIni(file) ==
    IF \/ file.malformed
       \/ \E a \in file.opts : \E b \in file.opts :
              a # b /\ a[1] = b[1] /\ optionxform(a[2]) = optionxform(b[2])
    THEN [raised |-> TRUE, sections |-> {}, opts |-> {}]
    ELSE [raised |-> FALSE,
          sections |-> file.sections \ {SEC_default},
          opts |-> {<<o[1], optionxform(o[2]), o[3]>> : o \in file.opts}]

\* read_pip_conf(): parse the file when it exists
read_pip_conf(file) ==
    IF file.exists THEN ParseIni(file) ELSE EmptyConfig

has_section(config, section) == section \in config.sections

InSection(config, section, option) ==
    \E o \in config.opts : o[1] = section /\ o[2] = optionxform(option)

\* RawConfigParser.has_option: the section's own options and the defaults
has_option(config, section, option) ==
    IF section = SEC_default THEN InSection(config, SEC_default, option)
    ELSE IF ~has_section(config, section) THEN FALSE
    ELSE \/ InSection(config, section, option)
         \/ InSection(config, SEC_default, option)

add_section(config, section) ==
    [config EXCEPT !.sections = @ \cup {section}]

\* RawConfigParser.set: replaces the section's value for the option
config_set(config, section, option, value) ==
    [config EXCEPT !.opts =
        {o \in @ : ~(o[1] = section /\ o[2] = optionxform(option))}
            \cup {<<section, optionxform(option), value>>}]

\* RawConfigParser.remove_option: removes from the section itself only
remove_option(config, section, option) ==
    [config EXCEPT !.opts =
        {o \in @ : ~(o[1] = section /\ o[2] = optionxform(option))}]

\* ConfigParser.get: the section's value, else the default's, interpolated
config_get(config, section, option) ==
    LET sec == IF InSection(config, section, option) THEN section ELSE SEC_default
        o   == CHOOSE x \in config.opts : x[1] = sec /\ x[2] = optionxform(option)
    IN  Interpolate(o[3])

\* write_pip_conf(): the whole file is rewritten from the parser's content;
\* a [DEFAULT] header is written only when there are defaults
write_pip_conf(config) ==
    IniFile(config.sections \cup
                (IF \E o \in config.opts : o[1] = SEC_default
                 THEN {SEC_default} ELSE {}),
            config.opts, FALSE)

\* Lines 91-93: global.index-url when set, else DEFAULT_INDEX
IndexOf(config) ==
    IF config.raised THEN [raised |-> TRUE, val |-> <<>>]
    ELSE IF has_section(config, SEC_global)
            /\ has_option(config, SEC_global, K_index_url)
    THEN config_get(config, SEC_global, K_index_url)
    ELSE [raised |-> FALSE, val |-> DEFAULT_INDEX]

\* get_current_index()
get_current_index(file) == IndexOf(read_pip_conf(file))

----------------------------------------------------------------------------
(* The history file                                                        *)

\* The history file on disk: absent; text json.load rejects ("unparsable",
\* which includes the empty file); JSON that is not an array ("nonlist":
\* {}, null, a number, a string); or a JSON array ("list") of entries.
NoHistory == [exists |-> FALSE, kind |-> "list", items |-> <<>>]

HistoryFile(k, entries) == [exists |-> TRUE, kind |-> k, items |-> entries]

\* A variant of Truncate that keeps the oldest entries: history[:50]
TruncateHead(history) ==
    IF Len(history) > HistoryCap THEN SubSeq(history, 1, HistoryCap) ELSE history

\* history[-50:] when len(history) > 50
Truncate(history) ==
    IF Len(history) > HistoryCap
    THEN SubSeq(history, Len(history) - HistoryCap + 1, Len(history))
    ELSE history

\* add_history, lines 125-142: the list that is about to be written.  An
\* exception of json.load gives []; a loaded value that is not a list has no
\* append(), and the AttributeError is raised outside the try block.
NewHistory(file, url, t) ==
    LET history == IF file.exists /\ file.kind = "list" THEN file.items ELSE <<>>
        entry   == [timestamp |-> t, url |-> url, is_default |-> (url = DEFAULT_INDEX)]
    IN  IF file.exists /\ file.kind = "nonlist"
        THEN [raised |-> TRUE, items |-> <<>>]
        ELSE [raised |-> FALSE, items |-> Truncate(Append(history, entry))]

\* Lines 144-148: the file is rewritten unless the append raised
RewriteHistory(file, h) ==
    IF h.raised THEN [raised |-> TRUE, file |-> file]
    ELSE [raised |-> FALSE, file |-> HistoryFile("list", h.items)]

\* add_history(url): load, append, truncate, rewrite the whole file
add_history(file, url, t) == RewriteHistory(file, NewHistory(file, url, t))

----------------------------------------------------------------------------
(* Operations on the three files fs = [conf, backup, hist]                 *)

Result(fs, outcome, url) == [fs |-> fs, outcome |-> outcome, url |-> url]

\* Lines 110-111: a host that is empty (or None) is not set; a ValueError
\* of config.set for the host is swallowed by the try block
SetTrustedHost(config, host) ==
    IF host # <<>> /\ PercentValid(host)
    THEN config_set(config, SEC_global, K_trusted_host, host)
    ELSE config

\* Lines 105-116: set, keep or clear global.trusted-host
UpdateTrustedHost(config, url, trust_host) ==
    IF trust_host /\ url # DEFAULT_INDEX
    THEN SetTrustedHost(config, Hostname(url))
    ELSE IF url = DEFAULT_INDEX /\ has_option(config, SEC_global, K_trusted_host)
    THEN remove_option(config, SEC_global, K_trusted_host)
    ELSE config

\* Lines 100-101
EnsureGlobal(config) ==
    IF has_section(config, SEC_global) THEN config ELSE add_section(config, SEC_global)

\* Lines 100-116 on the parser that read_pip_conf returned; raised when
\* reading the file raised or config.set rejects the URL
Modify(config, url, trust_host) ==
    IF config.raised \/ ~PercentValid(url)
    THEN [raised |-> TRUE, sections |-> {}, opts |-> {}]
    ELSE UpdateTrustedHost(config_set(EnsureGlobal(config), SEC_global, K_index_url, url),
                           url, trust_host)

\* Lines 98-116: the parser content that set_index_url is about to write
NewConfig(file, url, trust_host) == Modify(read_pip_conf(file), url, trust_host)

\* Line 119: add_history may raise after pip.conf has been written
LogSwitch(written, url, h) ==
    IF h.raised THEN Result(written, "raise", url)
    ELSE Result([written EXCEPT !.hist = h.file], "return", url)

\* Lines 118-119: write pip.conf, then add_history
WriteAndLog(fs, url, config, t) ==
    IF config.raised THEN Result(fs, "raise", url)
    ELSE LogSwitch([fs EXCEPT !.conf = write_pip_conf(config)], url,
                   add_history(fs.hist, url, t))

\* set_index_url(url, trust_host): read, modify, write, then add_history
set_index_url(fs, url, trust_host, t) ==
    WriteAndLog(fs, url, NewConfig(fs.conf, url, trust_host), t)

\* set_default()
set_default(fs, t) == set_index_url(fs, DEFAULT_INDEX, FALSE, t)

\* Lines 313-314 and 337-338: case-insensitive shortcut expansion
ExpandShortcut(url) ==
    IF Lower(url) \in DOMAIN POPULAR_MIRRORS THEN POPULAR_MIRRORS[Lower(url)] ELSE url

\* A variant of SchemeAccepted that tests for "://" instead of the two
\* accepted prefixes
SchemeAcceptedLoose(url) ==
    \E i \in 1..Len(url) : i + 2 <= Len(url) /\ SubSeq(url, i, i + 2) = <<":", "/", "/">>

\* Lines 316 and 340: accepted scheme prefixes
SchemeAccepted(url) == StartsWith(url, HTTP_PREFIX) \/ StartsWith(url, HTTPS_PREFIX)

\* Lines 320-321 and 344-345
AddSlash(url) == IF EndsWithSlash(url) THEN url ELSE Append(url, "/")

\* Lines 344-348: normalise, read the old index (which may raise), set
NormaliseAndSet(fs, url, t) ==
    IF get_current_index(fs.conf).raised
    THEN Result(fs, "raise", <<>>)
    ELSE set_index_url(fs, AddSlash(url), TRUE, t)

\* Lines 340-348, with `rejected` the outcome of a rejected scheme
ValidateAndSet(fs, url, rejected, t) ==
    IF ~SchemeAccepted(url) THEN Result(fs, rejected, <<>>)
    ELSE NormaliseAndSet(fs, url, t)

\* direct_set(url): a rejected scheme ends the process with sys.exit(1)
direct_set(fs, arg, t) == ValidateAndSet(fs, ExpandShortcut(arg), "exit1", t)

\* interactive_set(): nothing typed, or a rejected scheme, returns
interactive_set(fs, typed, t) ==
    IF typed = <<>> THEN Result(fs, "return", <<>>)
    ELSE ValidateAndSet(fs, ExpandShortcut(typed), "return", t)

\* A variant of copy2 that copies by parsing and rewriting the file
copy2_reparsed(src) ==
    IF read_pip_conf(src).raised THEN src ELSE write_pip_conf(read_pip_conf(src))

\* shutil.copy2: the destination gets the bytes of the source
copy2(src) == src

\* A variant of backup_config without the existence test: copying a
\* missing file raises FileNotFoundError
backup_config_unchecked(fs) ==
    IF ~fs.conf.exists THEN Result(fs, "raise", <<>>)
    ELSE Result([fs EXCEPT !.backup = copy2(fs.conf)], "return", <<>>)

\* backup_config(): nothing to do without a config file
backup_config(fs) ==
    IF ~fs.conf.exists THEN Result(fs, "return", <<>>)
    ELSE Result([fs EXCEPT !.backup = copy2(fs.conf)], "return", <<>>)

\* restore_config(): copy the backup over the config file, then report the
\* current index (get_current_index may raise on what was restored)
restore_config(fs) ==
    IF ~fs.backup.exists THEN Result(fs, "return", <<>>)
    ELSE Result([fs EXCEPT !.conf = copy2(fs.backup)],
                IF get_current_index(copy2(fs.backup)).raised THEN "raise" ELSE "return",
                <<>>)

----------------------------------------------------------------------------
(* Bounds and input sets                                                   *)

\* Invocations that set the index, per behaviour of Spec
MaxSets == 3

\* set_index_url calls per behaviour of SpecHistory: a margin past the cap
CallMargin == 2

\* calls with the non-default URL per behaviour of SpecHistory
MaxMirrorCalls == 2

Procs == {1, 2}

\* What a user passes on the command line or types at the prompt
Args ==
    {N_pypi, ArgShortcut, ArgNoSlash, ArgNoHost, ArgBadScheme, ArgPercent, ArgPercent2}

\* A file edited by hand: a comment, a capitalised option name, a stale
\* trusted-host
EditedFile ==
    IniFile({SEC_global, "install"},
            {<<SEC_global, K_index_url, URL_douban>>,
             <<SEC_global, K_trusted_host, H_douban>>,
             <<"install", K_Timeout, V_5>>},
            TRUE)

InitConfs == {NoFile, MalformedFile, EditedFile}

InitHists ==
    {NoHistory, HistoryFile("unparsable", <<>>), HistoryFile("nonlist", <<>>),
     HistoryFile("list", <<>>)}

\* URLs of the two concurrent set_index_url invocations
RaceUrls == {DEFAULT_INDEX, URL_aliyun, AddSlash(ArgNoSlash), ArgNoHost}

----------------------------------------------------------------------------
(* State machine: one invocation of the program per step                   *)

FS == [conf |-> conf, backup |-> backup, hist |-> hist]

Idle == [pc |-> "idle", url |-> <<>>, config |-> EmptyConfig, history |-> <<>>]

Invocation(op, arg, r) ==
    [op |-> op, arg |-> arg, url |-> r.url, outcome |-> r.outcome]

\* The files after an invocation, and the record of what it was
Apply(op, arg, r) ==
    /\ conf' = r.fs.conf
    /\ backup' = r.fs.backup
    /\ hist' = r.fs.hist
    /\ last' = Invocation(op, arg, r)

\* set_index_url returned: the call is part of the switch log
Logged(r) ==
    calls' = IF r.outcome = "return" /\ r.url # <<>> THEN Append(calls, r.url) ELSE calls

\* An invocation that may call set_index_url
SetStep(op, arg, r) ==
    /\ Apply(op, arg, r)
    /\ Logged(r)
    /\ now' = now + 1
    /\ UNCHANGED <<atBackup, proc, wrote>>

Init ==
    /\ conf \in InitConfs
    /\ backup = NoFile
    /\ hist \in InitHists
    /\ now = 0
    /\ last = [op |-> "none", arg |-> <<>>, url |-> <<>>, outcome |-> "return"]
    /\ calls = <<>>
    /\ atBackup = NoFile
    /\ proc = [p \in Procs |-> Idle]
    /\ wrote = [conf |-> 0, hist |-> 0]

\* main(): switch-pip <URL-or-shortcut>, for the arguments and the number of
\* invocations a specification allows
DirectSetOf(args, limit) ==
    /\ now < limit
    /\ \E arg \in args : SetStep("direct_set", arg, direct_set(FS, arg, now))

DirectSet == DirectSetOf(Args, MaxSets)

\* main(): switch-pip, then a line typed at the prompt
InteractiveSet ==
    /\ now < MaxSets
    /\ \E typed \in Args \cup {ArgEmpty} :
         SetStep("interactive_set", typed, interactive_set(FS, typed, now))

\* main(): switch-pip --default
SetDefaultOf(limit) ==
    /\ now < limit
    /\ SetStep("set_default", DEFAULT_INDEX, set_default(FS, now))

SetDefault == SetDefaultOf(MaxSets)

\* main(): switch-pip --show (show_current calls get_current_index first)
ShowCurrent ==
    /\ \E g \in {get_current_index(conf)} :
         last' = [op |-> "show", arg |-> <<>>, url |-> g.val,
                  outcome |-> IF g.raised THEN "raise" ELSE "return"]
    /\ UNCHANGED <<conf, backup, hist, now, calls, atBackup, proc, wrote>>

\* main(): switch-pip --backup
BackupConfig ==
    /\ Apply("backup", <<>>, backup_config(FS))
    /\ atBackup' = IF conf.exists THEN conf ELSE atBackup
    /\ UNCHANGED <<now, calls, proc, wrote>>

\* main(): switch-pip --restore
RestoreConfig ==
    /\ Apply("restore", <<>>, restore_config(FS))
    /\ UNCHANGED <<now, calls, atBackup, proc, wrote>>

Next ==
    \/ DirectSet
    \/ InteractiveSet
    \/ SetDefault
    \/ ShowCurrent
    \/ BackupConfig
    \/ RestoreConfig

Spec == Init /\ [][Next]_vars

----------------------------------------------------------------------------
(* Long runs of set_index_url from an empty or absent history              *)

MirrorCalls == Cardinality({i \in 1..Len(calls) : calls[i] # DEFAULT_INDEX})

InitHistory ==
    /\ conf = NoFile
    /\ backup = NoFile
    /\ hist \in {NoHistory, HistoryFile("unparsable", <<>>), HistoryFile("list", <<>>)}
    /\ now = 0
    /\ last = [op |-> "none", arg |-> <<>>, url |-> <<>>, outcome |-> "return"]
    /\ calls = <<>>
    /\ atBackup = NoFile
    /\ proc = [p \in Procs |-> Idle]
    /\ wrote = [conf |-> 0, hist |-> 0]

RepeatSetDefault == SetDefaultOf(HistoryCap + CallMargin)

RepeatSetMirror ==
    /\ MirrorCalls < MaxMirrorCalls
    /\ DirectSetOf({ArgShortcut}, HistoryCap + CallMargin)

NextHistory == RepeatSetDefault \/ RepeatSetMirror

SpecHistory == InitHistory /\ [][NextHistory]_vars

----------------------------------------------------------------------------
(* Two concurrent set_index_url invocations, no locking.  Each one reads   *)
(* the config, writes the config, reads the history, writes the history.   *)

Other(p) == CHOOSE q \in Procs : q # p

InitRace ==
    /\ conf \in {NoFile, EditedFile}
    /\ backup = NoFile
    /\ hist \in {NoHistory, HistoryFile("list", <<>>)}
    /\ now = 0
    /\ last = [op |-> "none", arg |-> <<>>, url |-> <<>>, outcome |-> "return"]
    /\ calls = <<>>
    /\ atBackup = NoFile
    /\ proc \in [Procs -> {[Idle EXCEPT !.pc = "read_conf", !.url = u] : u \in RaceUrls}]
    /\ wrote = [conf |-> 0, hist |-> 0]

\* set_index_url lines 98-116: read pip.conf and modify the parser in memory
ReadConf(p) ==
    /\ proc[p].pc = "read_conf"
    /\ \E config \in {NewConfig(conf, proc[p].url, TRUE)} :
         proc' = [proc EXCEPT ![p].config = config,
                              ![p].pc = IF config.raised THEN "failed" ELSE "write_conf"]
    /\ UNCHANGED <<conf, backup, hist, now, last, calls, atBackup, wrote>>

\* set_index_url line 118: write_pip_conf rewrites the file
WriteConf(p) ==
    /\ proc[p].pc = "write_conf"
    /\ conf' = write_pip_conf(proc[p].config)
    /\ wrote' = [wrote EXCEPT !.conf = p]
    /\ proc' = [proc EXCEPT ![p].pc = "read_hist"]
    /\ UNCHANGED <<backup, hist, now, last, calls, atBackup>>

\* add_history lines 124-142: load the history, append, truncate
ReadHist(p) ==
    /\ proc[p].pc = "read_hist"
    /\ \E h \in {NewHistory(hist, proc[p].url, now)} :
         proc' = [proc EXCEPT ![p].history = h.items,
                              ![p].pc = IF h.raised THEN "failed" ELSE "write_hist"]
    /\ now' = now + 1
    /\ UNCHANGED <<conf, backup, hist, last, calls, atBackup, wrote>>

\* add_history lines 147-148: rewrite the history file
WriteHist(p) ==
    /\ proc[p].pc = "write_hist"
    /\ hist' = HistoryFile("list", proc[p].history)
    /\ wrote' = [wrote EXCEPT !.hist = p]
    /\ proc' = [proc EXCEPT ![p].pc = "done"]
    /\ UNCHANGED <<conf, backup, now, last, calls, atBackup>>

NextRace ==
    \E p \in Procs : ReadConf(p) \/ WriteConf(p) \/ ReadHist(p) \/ WriteHist(p)

SpecRace == InitRace /\ [][NextRace]_vars

----------------------------------------------------------------------------
(* Vocabulary of the properties                                            *)

SetOps == {"direct_set", "interactive_set", "set_default"}

\* The value the file holds for an option (<<>> when it holds none)
RawOption(file, section, option) ==
    IF \E o \in file.opts : o[1] = section /\ optionxform(o[2]) = option
    THEN (CHOOSE o \in file.opts : o[1] = section /\ optionxform(o[2]) = option)[3]
    ELSE <<>>

HasOption(file, section, option) ==
    \E o \in file.opts : o[1] = section /\ optionxform(o[2]) = option

\* Everything in the file except global.index-url and global.trusted-host
OtherContent(file) ==
    [sections |-> file.sections \ {SEC_global},
     opts |-> {o \in file.opts :
                 ~(o[1] = SEC_global
                   /\ optionxform(o[2]) \in {K_index_url, K_trusted_host})}]

HasHttpPrefix(s) ==
    \/ Len(s) >= 7 /\ SubSeq(s, 1, 7) = <<"h", "t", "t", "p", ":", "/", "/">>
    \/ Len(s) >= 8 /\ SubSeq(s, 1, 8) = <<"h", "t", "t", "p", "s", ":", "/", "/">>

\* The last invocation called set_index_url, and it returned
SetReturned == last.op \in SetOps /\ last.url # <<>> /\ last.outcome = "return"

----------------------------------------------------------------------------
(* C1 *)

\* C1: after set_index_url(u) returns, the global section has no
\* trusted-host when u is the default URL, and global.trusted-host is the
\* hostname of u when u is any other URL, whatever it held before.
C1_TrustedHostFollowsUrl ==
    SetReturned =>
        IF last.url = DEFAULT_INDEX
        THEN ~HasOption(conf, SEC_global, K_trusted_host)
        ELSE RawOption(conf, SEC_global, K_trusted_host) = Hostname(last.url)

----------------------------------------------------------------------------
(* C2 *)

\* C2: with the config file absent or unparsable, get_current_index()
\* returns the default URL without raising.
C2_UnreadableConfigIsEmpty ==
    (last.op = "show" /\ (~conf.exists \/ conf.malformed)) =>
        (last.outcome = "return" /\ last.url = DEFAULT_INDEX)

----------------------------------------------------------------------------
(* C4 *)

\* C4: an invocation that sets the index leaves every section and option
\* other than global.index-url and global.trusted-host as it was: same
\* sections, same option names with the same spelling, same values.
C4_OtherContentPreserved ==
    [][last'.op \in SetOps => OtherContent(conf') = OtherContent(conf)]_vars

----------------------------------------------------------------------------
(* C5 *)

\* C5: for a non-empty URL X with an accepted scheme, and a prior
\* configuration that can be read, setting X and then reading the current
\* index returns exactly X.
C5_RoundTrip ==
    [][(/\ last'.op \in {"direct_set", "interactive_set"}
        /\ last'.arg # <<>>
        /\ HasHttpPrefix(last'.arg)
        /\ ~read_pip_conf(conf).raised)
       => get_current_index(conf') =
              [raised |-> FALSE,
               val |-> IF EndsWithSlash(last'.arg) THEN last'.arg
                       ELSE Append(last'.arg, "/")]]_vars

----------------------------------------------------------------------------
(* C6 *)

\* C6: when the history file exists but does not hold a usable history
\* (unparsable, or JSON that is not an array), a set_index_url(u) that got
\* as far as add_history returns, and leaves a history of exactly one
\* entry, the one for u.
C6_CorruptHistoryIsEmpty ==
    [][(/\ last'.op \in SetOps
        /\ last'.url # <<>>
        /\ conf' # conf
        /\ hist.exists /\ hist.kind \in {"unparsable", "nonlist"})
       => /\ last'.outcome = "return"
          /\ hist'.exists /\ hist'.kind = "list"
          /\ Len(hist'.items) = 1
          /\ hist'.items[1].url = last'.url]_vars

----------------------------------------------------------------------------
(* C3 *)

\* C3: starting from an empty or absent history, after n set_index_url
\* calls that returned, the history file holds exactly min(n, HistoryCap)
\* entries, they are the URLs of the most recent calls in call order, and
\* the length never exceeds HistoryCap.
C3_HistoryIsRecentCalls ==
    LET n == Len(calls)
        k == IF n < HistoryCap THEN n ELSE HistoryCap
    IN  IF n = 0 THEN ~hist.exists \/ hist.items = <<>>
        ELSE /\ hist.exists /\ hist.kind = "list"
             /\ Len(hist.items) = k
             /\ Len(hist.items) <= HistoryCap
             /\ \A i \in 1..k :
                    /\ hist.items[i].url = calls[n - k + i]
                    /\ hist.items[i].is_default = (calls[n - k + i] = DEFAULT_INDEX)

\* More calls than the cap, the last two with the same URL, and an entry of
\* the mirror still inside the window
C3_Witness ==
    /\ Len(calls) > HistoryCap
    /\ Len(hist.items) = HistoryCap
    /\ hist.items[HistoryCap].url = hist.items[HistoryCap - 1].url
    /\ \E i \in 1..HistoryCap : hist.items[i].url = URL_aliyun

----------------------------------------------------------------------------
(* C7 *)

\* C7: a backup file is the config file as it was at the most recent
\* backup_config() that found one, whatever was set since; after
\* restore_config() with a backup present the config file has that content
\* again, and get_current_index() gives what it gave at that backup.
C7_RestoreGivesBackedUpConfig ==
    /\ backup.exists => backup = atBackup
    /\ (last.op = "restore" /\ backup.exists) =>
          /\ conf = atBackup
          /\ get_current_index(conf) = get_current_index(atBackup)

\* A restore that brought back the hand-edited file after a set rewrote it
C7_Witness ==
    /\ last.op = "restore"
    /\ backup.exists
    /\ conf = EditedFile
    /\ calls # <<>>

----------------------------------------------------------------------------
(* C8 *)

\* C8: backup_config() without a config file creates no backup file and
\* changes no file; restore_config() without a backup file leaves the
\* config file as it was; both return normally (exit status 0).
C8_MissingSourceIsNoOp ==
    [][/\ (last'.op = "backup" /\ ~conf.exists) =>
            /\ UNCHANGED <<conf, backup, hist>>
            /\ ~backup'.exists
            /\ last'.outcome = "return"
       /\ (last'.op = "restore" /\ ~backup.exists) =>
            /\ UNCHANGED <<conf, backup, hist>>
            /\ last'.outcome = "return"]_vars

\* A backup was requested while there was no config file
C8_Witness ==
    /\ last.op = "backup"
    /\ ~conf.exists
    /\ ~backup.exists
    /\ last.outcome = "return"

----------------------------------------------------------------------------
(* C9 *)

\* C9: an input that, after shortcut expansion, has no accepted scheme
\* prefix is rejected with the config and history files untouched:
\* direct_set exits with status 1, interactive_set returns.  Whatever
\* direct_set or interactive_set stores as index-url starts with http:// or
\* https:// and ends with '/'.
C9_RejectedBeforeWrite ==
    [][/\ (last'.op = "direct_set" /\ ~HasHttpPrefix(ExpandShortcut(last'.arg))) =>
            (last'.outcome = "exit1" /\ UNCHANGED <<conf, backup, hist>>)
       /\ (last'.op = "interactive_set" /\ ~HasHttpPrefix(ExpandShortcut(last'.arg))) =>
            (last'.outcome = "return" /\ UNCHANGED <<conf, backup, hist>>)
       /\ (last'.op \in {"direct_set", "interactive_set"} /\ conf' # conf) =>
            LET stored == RawOption(conf', SEC_global, K_index_url)
            IN  HasHttpPrefix(stored) /\ stored[Len(stored)] = "/"]_vars

\* direct_set rejected an ftp:// URL
C9_Witness ==
    /\ last.op = "direct_set"
    /\ last.arg = ArgBadScheme
    /\ last.outcome = "exit1"

----------------------------------------------------------------------------
(* C10 *)

AllFinished == \A p \in Procs : proc[p].pc \in {"done", "failed"}

====
